---- MODULE Spec2Model ----
(***************************************************************************)
(* Jobly: the Company repository (models/company.js), the User repository  *)
(* as its test suite and the design document describe it, and the frontend *)
(* API client (API/api.js), as state machines over a relational store.     *)
(***************************************************************************)
EXTENDS Integers, Sequences, FiniteSets, TLC

\* ------------------------------------------------------------------ bounds

\* numEmployees, and the minEmployees / maxEmployees filters, range over 0..MaxEmployees
MaxEmployees == 2

\* ------------------------------------------------------------------ values

\* An optional JavaScript value: <<>> is undefined, <<v>> is the value v.
Undefined == <<>>
Some(v) == <<v>>

\* Strings whose characters matter (names, name filters) are sequences of
\* one-character strings; the other strings are atoms.
Lower(c) ==
    CASE c = "A" -> "a"
      [] c = "B" -> "b"
      [] c = "C" -> "c"
      [] OTHER -> c

\* Code points, for ORDER BY name.
Code(c) ==
    CASE c = "%" -> 37
      [] c = "A" -> 65
      [] c = "B" -> 66
      [] c = "C" -> 67
      [] c = "_" -> 95
      [] c = "a" -> 97
      [] c = "b" -> 98
      [] c = "c" -> 99
      [] OTHER -> 0

RECURSIVE StrLeq(_, _)
StrLeq(s, t) ==
    IF s = <<>> THEN TRUE
    ELSE IF t = <<>> THEN FALSE
    ELSE IF Code(Head(s)) < Code(Head(t)) THEN TRUE
    ELSE IF Code(Head(s)) > Code(Head(t)) THEN FALSE
    ELSE StrLeq(Tail(s), Tail(t))

Handles == {"c1", "c2"}
\* handles a caller may ask for: the stored ones and one that is never stored
AnyHandle == Handles \cup {"nope"}
Names == { <<"A", "b">>, <<"a", "c">>, <<"B">> }

\* ------------------------------------------------------------------ errors

BadRequestError(msg) == [kind |-> "BadRequestError", message |-> msg]
NotFoundError(msg) == [kind |-> "NotFoundError", message |-> msg]
UnauthorizedError(msg) == [kind |-> "UnauthorizedError", message |-> msg]
\* an error of the store itself (node-postgres), which no repository method catches
StoreError(msg) == [kind |-> "StoreError", message |-> msg]

Returned(v) == [status |-> "returned", value |-> v]
Thrown(e) == [status |-> "thrown", value |-> e]

\* ------------------------------------------------------------------ state

VARIABLES
    companies,    \* the companies table: a set of rows, by column name
    jobs,         \* the jobs table
    users,        \* the users table
    applications, \* the applications table
    calls,        \* per caller: the repository call it has in flight
    last,         \* the call that completed last: operation, arguments, outcome
    token,        \* JoblyApi.token
    sent,         \* the request the API client sent last
    issued        \* the token the last successful login / signup returned

vars == <<companies, jobs, users, applications, calls, last, token, sent, issued>>

Callers == {"p1", "p2"}
Idle == [pc |-> "idle"]
NoCall == [op |-> "none"]
None == "none"

\* ------------------------------------------------- the store (companies)

\* SELECT ... FROM companies WHERE handle = $1, bound to <<handle>>
SelectCompany(handle) == { r \in companies : r.handle = handle }

\* The uniqueness constraint of companies.handle: an INSERT of a handle that
\* is already stored is rejected by the store.
CompanyUniqueViolation(row) == \E r \in companies : r.handle = row.handle

\* The column list every company query returns:
\* handle, name, description, num_employees AS "numEmployees", logo_url AS "logoUrl"
CompanyShape(r) ==
    [handle |-> r.handle, name |-> r.name, description |-> r.description,
     numEmployees |-> r.num_employees, logoUrl |-> r.logo_url]

\* INSERT INTO companies (handle, name, description, num_employees, logo_url)
\* VALUES ($1, $2, $3, $4, $5), bound to
\* <<handle, name, description, numEmployees, logoUrl>>
CompanyInsertRow(data) ==
    [handle |-> data.handle, name |-> data.name, description |-> data.description,
     num_employees |-> data.numEmployees, logo_url |-> data.logoUrl]

\* ------------------------------------------------- Company.create

\* the data create is called with: { handle, name, description, numEmployees, logoUrl }
CreateInputs ==
    { [handle |-> "c1", name |-> <<"A", "b">>, description |-> "Desc1",
       numEmployees |-> 0, logoUrl |-> "http://c.img"],
      [handle |-> "c1", name |-> <<"B">>, description |-> "Desc2",
       numEmployees |-> MaxEmployees, logoUrl |-> "null"],
      [handle |-> "c2", name |-> <<"a", "c">>, description |-> "Desc2",
       numEmployees |-> 1, logoUrl |-> "null"] }

DuplicateCompany(handle) == BadRequestError(<<"Duplicate company: ", handle>>)

\* create without its duplicate check: every call goes on to its INSERT
CreateCheckNoLookup(p, data) ==
    /\ calls[p].pc = "idle"
    /\ calls' = [calls EXCEPT ![p] = [pc |-> "insert", op |-> "create", data |-> data]]
    /\ UNCHANGED <<companies, jobs, users, applications, last, token, sent, issued>>

\* create, up to its first await: the duplicate check. A duplicate throws;
\* otherwise the call goes on to its INSERT, and other calls may run before it.
CreateCheck(p, data) ==
    /\ calls[p].pc = "idle"
    /\ IF SelectCompany(data.handle) # {}
       THEN /\ last' = [op |-> "create", args |-> data,
                        out |-> Thrown(DuplicateCompany(data.handle))]
            /\ calls' = calls
       ELSE /\ calls' = [calls EXCEPT ![p] = [pc |-> "insert", op |-> "create", data |-> data]]
            /\ last' = last
    /\ UNCHANGED <<companies, jobs, users, applications, token, sent, issued>>

\* create, from its INSERT to its return. The store's rejection of a
\* duplicate key is not caught: it leaves create as the store's own error.
CreateInsert(p) ==
    /\ calls[p].pc = "insert"
    /\ calls[p].op = "create"
    /\ LET data == calls[p].data
           row == CompanyInsertRow(data)
       IN IF CompanyUniqueViolation(row)
          THEN /\ last' = [op |-> "create", args |-> data,
                           out |-> Thrown(StoreError("unique_violation"))]
               /\ companies' = companies
          ELSE /\ companies' = companies \cup {row}
               /\ last' = [op |-> "create", args |-> data,
                           out |-> Returned(CompanyShape(row))]
    /\ calls' = [calls EXCEPT ![p] = Idle]
    /\ UNCHANGED <<jobs, users, applications, token, sent, issued>>

\* ------------------------------------------------- Company.remove

NoCompany(handle) == NotFoundError(<<"No company: ", handle>>)

\* DELETE FROM companies WHERE handle = $1 RETURNING handle
Remove(handle) ==
    /\ companies' = companies \ SelectCompany(handle)
    /\ last' = [op |-> "remove", args |-> [handle |-> handle],
                out |-> IF SelectCompany(handle) = {}
                        THEN Thrown(NoCompany(handle))
                        ELSE Returned(None)]
    /\ UNCHANGED <<jobs, users, applications, calls, token, sent, issued>>

\* ------------------------------------------------- Company.findAll

\* a >= b in place of a > b
JsGreaterOrEqual(a, b) == a # Undefined /\ b # Undefined /\ a[1] >= b[1]

\* a > b in JavaScript, for numbers that may be undefined: a comparison with
\* undefined is false
JsGreater(a, b) == a # Undefined /\ b # Undefined /\ a[1] > b[1]

\* if (name): undefined and the empty string are falsy
Truthy(name) == name # Undefined /\ name[1] # <<>>

\* The WHERE clauses and the bind values findAll builds. A clause is a
\* column, an operator and the index n of its placeholder $n.
FindAllQuery(f) ==
    LET hasMin == f.minEmployees # Undefined
        hasMax == f.maxEmployees # Undefined
        v1 == IF hasMin THEN <<f.minEmployees[1]>> ELSE <<>>
        w1 == IF hasMin
              THEN <<[col |-> "num_employees", op |-> ">=", idx |-> Len(v1)]>>
              ELSE <<>>
        v2 == IF hasMax THEN Append(v1, f.maxEmployees[1]) ELSE v1
        w2 == IF hasMax
              THEN Append(w1, [col |-> "num_employees", op |-> "<=", idx |-> Len(v2)])
              ELSE w1
        v3 == IF Truthy(f.name)
              THEN Append(v2, <<"%">> \o f.name[1] \o <<"%">>)
              ELSE v2
        w3 == IF Truthy(f.name)
              THEN Append(w2, [col |-> "name", op |-> "ILIKE", idx |-> Len(v3)])
              ELSE w2
    IN [where |-> w3, values |-> v3]

\* The store's LIKE on case-folded operands (ILIKE): in the pattern, % stands
\* for any run of characters and _ for any one character.
RECURSIVE ILike(_, _)
ILike(s, pat) ==
    IF pat = <<>> THEN s = <<>>
    ELSE IF Head(pat) = "%"
         THEN ILike(s, Tail(pat)) \/ (s # <<>> /\ ILike(Tail(s), pat))
         ELSE /\ s # <<>>
              /\ (Head(pat) = "_" \/ Lower(Head(s)) = Lower(Head(pat)))
              /\ ILike(Tail(s), Tail(pat))

\* whether row r satisfies clause c under the bind values
ClauseHolds(r, c, binds) ==
    CASE c.op = ">=" -> r[c.col] >= binds[c.idx]
      [] c.op = "<=" -> r[c.col] <= binds[c.idx]
      [] c.op = "ILIKE" -> ILike(r[c.col], binds[c.idx])

\* SELECT ... FROM companies WHERE c1 AND c2 ...: the rows it selects
SelectWhere(q) ==
    { r \in companies : \A i \in 1..Len(q.where) : ClauseHolds(r, q.where[i], q.values) }

\* ORDER BY name: every order of the rows that ascends by name (rows of equal
\* name come in an order the store chooses)
OrderByName(rows) ==
    { s \in [1..Cardinality(rows) -> rows] :
        \A i, j \in 1..Cardinality(rows) :
            i < j => s[i] # s[j] /\ StrLeq(s[i].name, s[j].name) }

MinExceedsMax == BadRequestError("Min employees cannot exceed max employees")

FindAll(f) ==
    /\ IF JsGreater(f.minEmployees, f.maxEmployees)
       THEN last' = [op |-> "findAll", args |-> f, query |-> Undefined,
                     out |-> Thrown(MinExceedsMax)]
       ELSE \E rows \in OrderByName(SelectWhere(FindAllQuery(f))) :
                last' = [op |-> "findAll", args |-> f, query |-> Some(FindAllQuery(f)),
                         out |-> Returned([i \in 1..Cardinality(DOMAIN rows) |->
                                              CompanyShape(rows[i])])]
    /\ UNCHANGED <<companies, jobs, users, applications, calls, token, sent, issued>>

\* ------------------------------------------------- Company.get

\* SELECT id, title, salary, equity FROM jobs WHERE company_handle = $1 ORDER BY id
JobsOf(handle) ==
    LET rows == { j \in jobs : j.company_handle = handle }
        s == CHOOSE t \in [1..Cardinality(rows) -> rows] :
                 \A i, j \in 1..Cardinality(rows) : i < j => t[i].id < t[j].id
    IN [i \in 1..Cardinality(rows) |->
           [id |-> s[i].id, title |-> s[i].title, salary |-> s[i].salary,
            equity |-> s[i].equity]]

Get(handle) ==
    /\ last' = [op |-> "get", args |-> [handle |-> handle],
                out |-> IF SelectCompany(handle) = {}
                        THEN Thrown(NoCompany(handle))
                        ELSE LET company == CHOOSE r \in SelectCompany(handle) : TRUE
                             IN Returned([c |-> CompanyShape(company),
                                          jobs |-> JobsOf(handle)])]
    /\ UNCHANGED <<companies, jobs, users, applications, calls, token, sent, issued>>

\* ------------------------------------------------- helpers/sql: sqlForPartialUpdate

\* The data of a partial update: its fields and their new values, in the
\* order the object lists them.
Field(f, v) == [field |-> f, value |-> v]

NoData == BadRequestError("No data")

\* "col"=$idx for every field of the data, numbered from 1, and the values in
\* the same order; the caller sees NoData thrown when the data is empty.
SqlForPartialUpdate(dataToUpdate, jsToSql) ==
    [setCols |-> [i \in 1..Len(dataToUpdate) |->
                     [col |-> IF dataToUpdate[i].field \in DOMAIN jsToSql
                              THEN jsToSql[dataToUpdate[i].field]
                              ELSE dataToUpdate[i].field,
                      idx |-> i]],
     values |-> [i \in 1..Len(dataToUpdate) |-> dataToUpdate[i].value]]

\* UPDATE ... SET col = $idx, ...: the row r after the assignments
SetColumns(r, setCols, binds) ==
    [c \in DOMAIN r |->
        IF \E i \in 1..Len(setCols) : setCols[i].col = c
        THEN binds[setCols[CHOOSE i \in 1..Len(setCols) : setCols[i].col = c].idx]
        ELSE r[c]]

\* whether the SET clause names a column the table does not have
UndefinedColumn(setCols, columns) ==
    \E i \in 1..Len(setCols) : setCols[i].col \notin columns

\* ------------------------------------------------- Company.update

CompanyColumns == {"handle", "name", "description", "num_employees", "logo_url"}

\* the mapping without its numEmployees entry
CompanyJsToSqlNoEmployees == [logoUrl |-> "logo_url"]

\* { numEmployees: "num_employees", logoUrl: "logo_url" }
CompanyJsToSql == [numEmployees |-> "num_employees", logoUrl |-> "logo_url"]

\* "$" + (values.length + 1)
HandleVarIdx(values) == Len(values) + 1

\* the partial updates update is called with
CompanyUpdateInputs ==
    << <<>>,
       <<Field("name", <<"B">>)>>,
       <<Field("numEmployees", MaxEmployees)>>,
       <<Field("logoUrl", "null"), Field("description", "Desc2")>>,
       <<Field("numEmployees", 0), Field("name", <<"a", "c">>)>>,
       <<Field("description", "Desc1"), Field("logoUrl", "http://c.img"),
         Field("name", <<"A", "b">>)>> >>

\* update without its throw: no row updated returns undefined
UpdateResultNoThrow(handle, rows) ==
    IF rows = {}
    THEN Returned(Undefined)
    ELSE Returned(CompanyShape(CHOOSE r \in rows : TRUE))

\* const company = result.rows[0]; if (!company) throw NotFoundError; return company
UpdateResult(handle, rows) ==
    IF rows = {}
    THEN Thrown(NoCompany(handle))
    ELSE Returned(CompanyShape(CHOOSE r \in rows : TRUE))

Update(handle, data) ==
    /\ IF data = <<>>
       THEN /\ last' = [op |-> "update", args |-> [handle |-> handle, data |-> data],
                        query |-> Undefined, out |-> Thrown(NoData)]
            /\ companies' = companies
       ELSE LET q == SqlForPartialUpdate(data, CompanyJsToSql)
                idx == HandleVarIdx(q.values)
                binds == Append(q.values, handle)
                hit == { r \in companies : r.handle = binds[idx] }
                query == Some([setCols |-> q.setCols, handleVarIdx |-> idx,
                               binds |-> binds])
            IN IF UndefinedColumn(q.setCols, CompanyColumns)
               THEN /\ last' = [op |-> "update",
                                args |-> [handle |-> handle, data |-> data],
                                query |-> query,
                                out |-> Thrown(StoreError("undefined_column"))]
                    /\ companies' = companies
               ELSE /\ companies' = (companies \ hit) \cup
                                      { SetColumns(r, q.setCols, binds) : r \in hit }
                    /\ last' = [op |-> "update",
                                args |-> [handle |-> handle, data |-> data],
                                query |-> query,
                                out |-> UpdateResult(handle,
                                            { SetColumns(r, q.setCols, binds) : r \in hit })]
    /\ UNCHANGED <<jobs, users, applications, calls, token, sent, issued>>

\* ------------------------------------------------- the store (users)

Usernames == {"u1", "u2"}
AnyUsername == Usernames \cup {"nope"}
Passwords == {"password1", "password2", "wrong"}

\* The salted hash of a password, as the users table stores it, and the
\* check of a password against a stored hash.
Hash(password) == <<"$2b$", password>>
HashMatches(password, hash) == hash = Hash(password)

SelectUser(username) == { r \in users : r.username = username }

\* the uniqueness constraint of users.username
UserUniqueViolation(row) == \E r \in users : r.username = row.username

\* what every user query returns: the row without its password
UserShape(r) ==
    [username |-> r.username, firstName |-> r.first_name, lastName |-> r.last_name,
     email |-> r.email, isAdmin |-> r.is_admin]

\* ------------------------------------------------- User.register

RegisterInputs ==
    { [username |-> "u1", password |-> "password1", firstName |-> "U1F",
       lastName |-> "U1L", email |-> "u1@email.com", isAdmin |-> Undefined],
      [username |-> "u1", password |-> "password2", firstName |-> "Test",
       lastName |-> "Tester", email |-> "test@test.com", isAdmin |-> Some(TRUE)],
      [username |-> "u2", password |-> "password2", firstName |-> "U2F",
       lastName |-> "U2L", email |-> "u2@email.com", isAdmin |-> Some(FALSE)] }

DuplicateUsername(username) == BadRequestError(<<"Duplicate username: ", username>>)

\* the row register stores: the password hashed, isAdmin false unless given
UserInsertRow(data) ==
    [username |-> data.username, password |-> Hash(data.password),
     first_name |-> data.firstName, last_name |-> data.lastName,
     email |-> data.email,
     is_admin |-> IF data.isAdmin = Undefined THEN FALSE ELSE data.isAdmin[1]]

\* register, up to the end of its duplicate check
RegisterCheck(p, data) ==
    /\ calls[p].pc = "idle"
    /\ IF SelectUser(data.username) # {}
       THEN /\ last' = [op |-> "register", args |-> data,
                        out |-> Thrown(DuplicateUsername(data.username))]
            /\ calls' = calls
       ELSE /\ calls' = [calls EXCEPT ![p] = [pc |-> "insert", op |-> "register", data |-> data]]
            /\ last' = last
    /\ UNCHANGED <<companies, jobs, users, applications, token, sent, issued>>

\* register, from its INSERT to its return
RegisterInsert(p) ==
    /\ calls[p].pc = "insert"
    /\ calls[p].op = "register"
    /\ LET data == calls[p].data
           row == UserInsertRow(data)
       IN IF UserUniqueViolation(row)
          THEN /\ last' = [op |-> "register", args |-> data,
                           out |-> Thrown(StoreError("unique_violation"))]
               /\ users' = users
          ELSE /\ users' = users \cup {row}
               /\ last' = [op |-> "register", args |-> data,
                           out |-> Returned(UserShape(row))]
    /\ calls' = [calls EXCEPT ![p] = Idle]
    /\ UNCHANGED <<companies, jobs, applications, token, sent, issued>>

\* ------------------------------------------------- User.remove

NoUser(username) == NotFoundError(<<"No user found: ", username>>)

RemoveUser(username) ==
    /\ users' = users \ SelectUser(username)
    /\ last' = [op |-> "removeUser", args |-> [username |-> username],
                out |-> IF SelectUser(username) = {}
                        THEN Thrown(NoUser(username))
                        ELSE Returned(None)]
    /\ UNCHANGED <<companies, jobs, applications, calls, token, sent, issued>>

\* ------------------------------------------------- User.authenticate

InvalidCredentials == UnauthorizedError("Invalid username/password")

\* authenticate with an error of its own for a username that is not stored
AuthenticateNamingUser(username, password) ==
    /\ last' = [op |-> "authenticate",
                args |-> [username |-> username, password |-> password],
                out |-> IF SelectUser(username) = {}
                        THEN Thrown(UnauthorizedError("No such user"))
                        ELSE IF \E r \in SelectUser(username) : HashMatches(password, r.password)
                        THEN Returned(UserShape(CHOOSE r \in SelectUser(username) : TRUE))
                        ELSE Thrown(InvalidCredentials)]
    /\ UNCHANGED <<companies, jobs, users, applications, calls, token, sent, issued>>

Authenticate(username, password) ==
    /\ last' = [op |-> "authenticate",
                args |-> [username |-> username, password |-> password],
                out |-> IF \E r \in SelectUser(username) : HashMatches(password, r.password)
                        THEN Returned(UserShape(CHOOSE r \in SelectUser(username) :
                                                   HashMatches(password, r.password)))
                        ELSE Thrown(InvalidCredentials)]
    /\ UNCHANGED <<companies, jobs, users, applications, calls, token, sent, issued>>

\* ------------------------------------------------- User.update

\* { firstName: "first_name", lastName: "last_name", isAdmin: "is_admin" }
UserJsToSql ==
    [firstName |-> "first_name", lastName |-> "last_name", isAdmin |-> "is_admin"]

\* if the data holds a password, the data with that password hashed
HashPassword(data) ==
    [i \in 1..Len(data) |->
        IF data[i].field = "password"
        THEN Field("password", Hash(data[i].value))
        ELSE data[i]]

UserUpdateInputs ==
    << <<>>,
       <<Field("password", "password2")>>,
       <<Field("firstName", "NewF")>>,
       <<Field("firstName", "NewF"), Field("lastName", "NewL"),
         Field("email", "new@email.com"), Field("isAdmin", TRUE)>>,
       <<Field("email", "u1@email.com"), Field("password", "password1")>>,
       <<Field("isAdmin", TRUE)>> >>

HasField(data, f) == \E i \in 1..Len(data) : data[i].field = f

CannotChangeAdmin == UnauthorizedError("Cannot change admin status")

\* the partial update itself
UserUpdateRun(username, data) ==
    /\ IF data = <<>>
       THEN /\ last' = [op |-> "updateUser",
                        args |-> [username |-> username, data |-> data],
                        out |-> Thrown(NoData)]
            /\ users' = users
       ELSE LET q == SqlForPartialUpdate(HashPassword(data), UserJsToSql)
                binds == Append(q.values, username)
                hit == { r \in users : r.username = binds[Len(q.values) + 1] }
            IN /\ users' = (users \ hit) \cup
                              { SetColumns(r, q.setCols, binds) : r \in hit }
               /\ last' = [op |-> "updateUser",
                           args |-> [username |-> username, data |-> data],
                           out |-> IF hit = {}
                                   THEN Thrown(NoUser(username))
                                   ELSE Returned(UserShape(SetColumns(
                                            CHOOSE r \in hit : TRUE, q.setCols, binds)))]
    /\ UNCHANGED <<companies, jobs, applications, calls, token, sent, issued>>

\* a change of isAdmin that is refused (the test suite has update refuse one
\* and accept another; which calls are refused is not decided here)
UserUpdateRefused(username, data) ==
    /\ HasField(data, "isAdmin")
    /\ last' = [op |-> "updateUser",
                args |-> [username |-> username, data |-> data],
                out |-> Thrown(CannotChangeAdmin)]
    /\ UNCHANGED <<companies, jobs, users, applications, calls, token, sent, issued>>

UserUpdate(username, data) ==
    \/ UserUpdateRun(username, data)
    \/ UserUpdateRefused(username, data)

\* ------------------------------------------------- User.applyToJob

JobIds == {1, 2}
\* the ids a caller may ask for: the stored ones and 0, which is never stored
AnyJobId == JobIds \cup {0}
Statuses == {"applied", "interviewed", "rejected", "accepted"}

NoUsername(username) == NotFoundError(<<"No username: ", username>>)
NoJob(jobId) == NotFoundError(<<"No job: ", jobId>>)
AlreadyApplied == BadRequestError("Already applied")

\* status = "applied" when the caller gives none
StatusOrDefault(status) == IF status = Undefined THEN "applied" ELSE status[1]

\* applyToJob without its check of the pair
HasAppliedUnchecked(username, jobId) == FALSE

\* whether the pair (username, jobId) is in the applications table
HasApplied(username, jobId) ==
    \E a \in applications : a.username = username /\ a.job_id = jobId

\* The two existence checks, then the check of the pair, then the INSERT.
\* When neither the user nor the job exists, which check throws is the order
\* of the two checks.
ApplyToJob(username, jobId, status) ==
    LET noUser == SelectUser(username) = {}
        noJob == ~ \E j \in jobs : j.id = jobId
        applied == HasApplied(username, jobId)
        args == [username |-> username, jobId |-> jobId, status |-> status]
    IN /\ \/ /\ noUser
             /\ last' = [op |-> "applyToJob", args |-> args,
                         out |-> Thrown(NoUsername(username))]
             /\ applications' = applications
          \/ /\ noJob
             /\ last' = [op |-> "applyToJob", args |-> args,
                         out |-> Thrown(NoJob(jobId))]
             /\ applications' = applications
          \/ /\ ~ noUser /\ ~ noJob /\ applied
             /\ last' = [op |-> "applyToJob", args |-> args,
                         out |-> Thrown(AlreadyApplied)]
             /\ applications' = applications
          \/ /\ ~ noUser /\ ~ noJob /\ ~ applied
             /\ applications' = applications \cup
                   { [username |-> username, job_id |-> jobId,
                      status |-> StatusOrDefault(status)] }
             /\ last' = [op |-> "applyToJob", args |-> args, out |-> Returned(None)]
       /\ UNCHANGED <<companies, jobs, users, calls, token, sent, issued>>

\* ------------------------------------------------- API client (JoblyApi)

\* The JavaScript values the client tells apart (Array.isArray): a string,
\* an array of strings, and the TypeError of reading a property of undefined.
\* Each holds its strings as a sequence.
JsString(x) == [type |-> "string", items |-> <<x>>]
JsArray(strings) == [type |-> "array", items |-> strings]
TypeError == [type |-> "TypeError", items |-> <<"Cannot read properties of undefined">>]

BaseUrl == "http://localhost:3001"
\* the token the module puts on the class when it loads
InitialToken == "eyJhbGciOiJIUzI1NiIsInR5cCI6IkpXVCJ9.testuser"
\* tokens the server issues
Tokens == {"tokenA", "tokenB"}
NoRequest == [url |-> None]
EmptyObject == <<>>

\* What axios does with a request: it resolves with the response of a 2xx, or
\* rejects with an error that holds the response of a non-2xx, or no response
\* at all when none came.
ErrorBodies ==
    { Some([error |-> Some([message |-> JsString("Not Found")])]),
      Some([error |-> Some([message |-> JsArray(<<"instance.username is required",
                                                 "instance.password is required">>)])]),
      Some([error |-> Undefined]),
      Undefined }
Rejections ==
    { [kind |-> "rejected", response |-> Some([data |-> b])] : b \in ErrorBodies }
    \cup { [kind |-> "rejected", response |-> Undefined] }
Resolved(data) == [kind |-> "resolved", data |-> data]

\* the request request() hands to axios
RequestSent(endpoint, data, method) ==
    [url |-> <<BaseUrl, "/", endpoint>>,
     method |-> method,
     data |-> data,
     params |-> IF method = "get" THEN data ELSE EmptyObject,
     headers |-> [Authorization |-> <<"Bearer ", token>>]]

\* err.response.data.error.message, then the throw of the catch block; reading
\* a property of undefined throws a TypeError out of the catch block instead
RequestThrows(err) ==
    IF err.response = Undefined THEN TypeError
    ELSE IF err.response[1].data = Undefined THEN TypeError
    ELSE IF err.response[1].data[1].error = Undefined THEN TypeError
    ELSE LET message == err.response[1].data[1].error[1].message
         IN IF message.type = "array" THEN message ELSE JsArray(message.items)

\* request(): the response's data returned, or the catch block's throw
RequestOutcome(reply) ==
    IF reply.kind = "resolved" THEN Returned(reply.data) ELSE Thrown(RequestThrows(reply))

\* a route method: one request, and a field of the answer returned
Route(op, args, endpoint, data, method, field, reply) ==
    /\ sent' = RequestSent(endpoint, data, method)
    /\ last' = [op |-> op, args |-> args,
                out |-> IF RequestOutcome(reply).status = "returned"
                        THEN Returned(RequestOutcome(reply).value[field])
                        ELSE RequestOutcome(reply)]
    /\ UNCHANGED <<companies, jobs, users, applications, calls, token>>

Replies(field, payloads) ==
    { Resolved([f \in {field} |-> x]) : x \in payloads } \cup Rejections

GetCompany(handle) ==
    \E reply \in Replies("company", {"a company"}) :
        /\ Route("getCompany", [handle |-> handle], <<"companies/", handle>>,
                 EmptyObject, "get", "company", reply)
        /\ UNCHANGED issued

GetCompanies(name) ==
    \E reply \in Replies("companies", {"some companies"}) :
        /\ Route("getCompanies", [name |-> name], <<"companies">>,
                 [name |-> name], "get", "companies", reply)
        /\ UNCHANGED issued

GetJobs(title) ==
    \E reply \in Replies("jobs", {"some jobs"}) :
        /\ Route("getJobs", [title |-> title], <<"jobs">>,
                 [title |-> title], "get", "jobs", reply)
        /\ UNCHANGED issued

GetJob(id) ==
    \E reply \in Replies("job", {"a job"}) :
        /\ Route("getJob", [id |-> id], <<"jobs/", id>>,
                 EmptyObject, "get", "job", reply)
        /\ UNCHANGED issued

\* signup and login return the token of the answer, and store it nowhere
Signup(data) ==
    \E reply \in Replies("token", Tokens) :
        /\ Route("signup", data, <<"auth/register">>, data, "post", "token", reply)
        /\ issued' = IF reply.kind = "resolved" THEN reply.data.token ELSE issued

Login(data) ==
    \E reply \in Replies("token", Tokens) :
        /\ Route("login", data, <<"auth/token">>, data, "post", "token", reply)
        /\ issued' = IF reply.kind = "resolved" THEN reply.data.token ELSE issued

GetCurrentUser(username) ==
    \E reply \in Replies("user", {"a user"}) :
        /\ Route("getCurrentUser", [username |-> username], <<"users/", username>>,
                 EmptyObject, "get", "user", reply)
        /\ UNCHANGED issued

UpdateProfile(username, data) ==
    \E reply \in Replies("user", {"a user"}) :
        /\ Route("updateProfile", [username |-> username, data |-> data],
                 <<"users/", username>>, data, "patch", "user", reply)
        /\ UNCHANGED issued

\* applyToJob returns nothing
ApiApplyToJob(username, jobId) ==
    \E reply \in Replies("applied", {jobId}) :
        /\ sent' = RequestSent(<<"users/", username, "/jobs/", jobId>>, EmptyObject, "post")
        /\ last' = [op |-> "apiApplyToJob",
                    args |-> [username |-> username, jobId |-> jobId],
                    out |-> IF RequestOutcome(reply).status = "returned"
                            THEN Returned(None)
                            ELSE RequestOutcome(reply)]
        /\ UNCHANGED <<companies, jobs, users, applications, calls, token, issued>>

Credentials ==
    { [username |-> "testuser", password |-> "password"],
      [username |-> "u1", password |-> "wrong"] }
ProfileData == { [firstName |-> "NewF"], [email |-> "new@email.com"] }
NameFilters == { <<>>, <<"a">>, <<"B">> }

\* ------------------------------------------------- initial states

\* the rows the test suites load before each test
CompanyFixture ==
    { [handle |-> "c1", name |-> <<"A", "b">>, description |-> "Desc1",
       num_employees |-> 1, logo_url |-> "http://c.img"],
      [handle |-> "c2", name |-> <<"a", "c">>, description |-> "Desc2",
       num_employees |-> MaxEmployees, logo_url |-> "null"] }
JobFixture ==
    { [id |-> 1, title |-> "Job1", salary |-> 100, equity |-> "0.1", company_handle |-> "c1"],
      [id |-> 2, title |-> "Job2", salary |-> 200, equity |-> "0.2", company_handle |-> "c1"] }
UserFixture ==
    { [username |-> "u1", password |-> Hash("password1"), first_name |-> "U1F",
       last_name |-> "U1L", email |-> "u1@email.com", is_admin |-> FALSE],
      [username |-> "u2", password |-> Hash("password2"), first_name |-> "U2F",
       last_name |-> "U2L", email |-> "u2@email.com", is_admin |-> FALSE] }
ApplicationFixture ==
    { [username |-> "u1", job_id |-> 1, status |-> "applied"] }

InitClient ==
    /\ calls = [p \in Callers |-> Idle]
    /\ last = NoCall
    /\ token = InitialToken
    /\ sent = NoRequest
    /\ issued = None

\* an empty database
Init ==
    /\ companies = {}
    /\ jobs = {}
    /\ users = {}
    /\ applications = {}
    /\ InitClient

\* the database of the test suites
InitFixture ==
    /\ companies = CompanyFixture
    /\ jobs = JobFixture
    /\ users = UserFixture
    /\ applications = ApplicationFixture
    /\ InitClient

\* the contents of the companies table findAll is run on: any rows, one per
\* handle, of the smallest and the largest number of employees
FindRows ==
    { [handle |-> h, name |-> n, description |-> "Desc1", num_employees |-> e,
       logo_url |-> "null"] : h \in Handles, n \in Names, e \in {0, MaxEmployees} }
FindStores ==
    { S \in SUBSET FindRows :
        /\ Cardinality(S) <= Cardinality(Handles)
        /\ \A r1, r2 \in S : r1.handle = r2.handle => r1 = r2 }

InitFind ==
    /\ companies \in FindStores
    /\ jobs = { j \in JobFixture : \E r \in companies : r.handle = j.company_handle }
    /\ users = {}
    /\ applications = {}
    /\ InitClient

\* ------------------------------------------------- specifications

\* Concurrent callers of create, register and remove on an empty database.
\* (Nothing here creates a job, so no job refers to a company that is removed.)
Next ==
    \/ \E p \in Callers, data \in CreateInputs : CreateCheck(p, data)
    \/ \E p \in Callers : CreateInsert(p)
    \/ \E p \in Callers, data \in RegisterInputs : RegisterCheck(p, data)
    \/ \E p \in Callers : RegisterInsert(p)
    \/ \E handle \in AnyHandle : Remove(handle)
    \/ \E username \in AnyUsername : RemoveUser(username)

Spec == Init /\ [][Next]_vars

\* One caller, whose calls run one after another.
NextSeq ==
    \/ \E data \in CreateInputs : CreateCheck("p1", data)
    \/ CreateInsert("p1")
    \/ \E data \in RegisterInputs : RegisterCheck("p1", data)
    \/ RegisterInsert("p1")
    \/ \E handle \in AnyHandle : Remove(handle)
    \/ \E username \in AnyUsername : RemoveUser(username)
    \/ \E username \in AnyUsername, password \in Passwords : Authenticate(username, password)

SpecSeq == Init /\ [][NextSeq]_vars

\* The queries, on any contents of the companies table.
OptionalEmployees == {Undefined} \cup { Some(e) : e \in 0..MaxEmployees }
OptionalNames ==
    {Undefined} \cup
    { Some(n) : n \in { <<>>, <<"a">>, <<"B">>, <<"a", "c">>, <<"_">>, <<"%">> } }
SearchFilters ==
    [minEmployees : OptionalEmployees, maxEmployees : OptionalEmployees,
     name : OptionalNames]

NextFind ==
    \/ \E f \in SearchFilters : FindAll(f)
    \/ \E handle \in AnyHandle : Get(handle)

SpecFind == InitFind /\ [][NextFind]_vars

\* The partial updates, on the database of the test suites: of one stored
\* company and one stored user, beside which another is stored, and of a
\* company and a user that are not stored.
NextUpdate ==
    \/ \E handle \in {"c1", "nope"}, i \in DOMAIN CompanyUpdateInputs :
           Update(handle, CompanyUpdateInputs[i])
    \/ \E username \in {"u1", "nope"}, i \in DOMAIN UserUpdateInputs :
           UserUpdate(username, UserUpdateInputs[i])

SpecUpdate == InitFixture /\ [][NextUpdate]_vars

\* Applications, on the database of the test suites.
OptionalStatuses == {Undefined} \cup { Some(st) : st \in Statuses }

NextApply ==
    \E username \in AnyUsername, jobId \in AnyJobId, status \in OptionalStatuses :
        ApplyToJob(username, jobId, status)

SpecApply == InitFixture /\ [][NextApply]_vars

\* The API client.
NextApi ==
    \/ \E handle \in AnyHandle : GetCompany(handle)
    \/ \E name \in NameFilters : GetCompanies(name)
    \/ \E title \in {"", "Job1"} : GetJobs(title)
    \/ \E id \in AnyJobId : GetJob(id)
    \/ \E data \in Credentials : Signup(data)
    \/ \E data \in Credentials : Login(data)
    \/ \E username \in AnyUsername : GetCurrentUser(username)
    \/ \E username \in Usernames, data \in ProfileData : UpdateProfile(username, data)
    \/ \E username \in Usernames, jobId \in AnyJobId : ApiApplyToJob(username, jobId)

SpecApi == Init /\ [][NextApi]_vars

\* ------------------------------------------------- properties

\* one company per handle and one user per username
UniqueKeys ==
    /\ \A r1, r2 \in companies : r1.handle = r2.handle => r1 = r2
    /\ \A r1, r2 \in users : r1.username = r2.username => r1 = r2

\* a step that completes a create call: a key that is stored makes it throw
\* the duplicate error and change nothing; a key that is not makes it store
\* the row and return it
CreateStep ==
    (last' # last /\ last'.op = "create") =>
        LET data == last'.args IN
        IF \E r \in companies : r.handle = data.handle
        THEN /\ last'.out = Thrown(BadRequestError(<<"Duplicate company: ", data.handle>>))
             /\ companies' = companies
        ELSE /\ last'.out = Returned(data)
             /\ companies' = companies \cup
                   { [handle |-> data.handle, name |-> data.name,
                      description |-> data.description,
                      num_employees |-> data.numEmployees, logo_url |-> data.logoUrl] }

\* the same of register, which returns the user without the password
RegisterStep ==
    (last' # last /\ last'.op = "register") =>
        LET data == last'.args IN
        IF \E r \in users : r.username = data.username
        THEN /\ last'.out = Thrown(BadRequestError(<<"Duplicate username: ", data.username>>))
             /\ users' = users
        ELSE /\ last'.out.status = "returned"
             /\ last'.out.value.username = data.username
             /\ \E r \in users' : r.username = data.username
             /\ { r \in users' : r.username # data.username } = users

\* C1: with calls that run one after another, a create (register) of a stored
\* key fails with the BadRequest duplicate error and leaves the store as it
\* was, a create of a key that is not stored inserts the row and returns it,
\* and the store never holds two companies of one handle or two users of one
\* username.
C1_SequentialCreate == [][CreateStep /\ RegisterStep]_vars /\ []UniqueKeys

\* a duplicate create has failed after creates, a register and a remove
C1_Witness ==
    /\ last.op = "create"
    /\ last.out = Thrown(DuplicateCompany("c1"))
    /\ Cardinality(companies) = 2
    /\ users # {}

\* C2: with concurrent calls, every create that fails fails with the
\* BadRequest duplicate error, also the one whose INSERT the uniqueness
\* constraint rejects, and the store holds one row per handle.
C2_RaceSurfacedAsDuplicate ==
    /\ (last.op = "create" /\ last.out.status = "thrown") =>
           last.out.value = BadRequestError(<<"Duplicate company: ", last.args.handle>>)
    /\ UniqueKeys

\* C3: findAll given both bounds, with minEmployees > maxEmployees, fails
\* with BadRequest whatever the name filter is and sends the store no query;
\* given at most one bound, or minEmployees <= maxEmployees, it does not
\* raise that error.
C3_RangeError ==
    last.op = "findAll" =>
        LET f == last.args
            bothGiven == f.minEmployees # Undefined /\ f.maxEmployees # Undefined
        IN IF bothGiven /\ f.minEmployees[1] > f.maxEmployees[1]
           THEN /\ last.out.status = "thrown"
                /\ last.out.value.kind = "BadRequestError"
                /\ last.query = Undefined
           ELSE last.out.status = "returned"

\* the range error of a call that also gives a name, on a table with rows
C3_Witness ==
    /\ last.op = "findAll"
    /\ last.out.status = "thrown"
    /\ last.args.name = Some(<<"a">>)
    /\ companies # {}

\* whether text occurs in s, letter case aside
ContainsIgnoreCase(s, text) ==
    \E k \in 0..(Len(s) - Len(text)) :
        \A j \in 1..Len(text) : Lower(s[k + j]) = Lower(text[j])

\* whether a company, in the shape findAll returns, passes the filters given
PassesFilters(c, f) ==
    /\ f.minEmployees # Undefined => c.numEmployees >= f.minEmployees[1]
    /\ f.maxEmployees # Undefined => c.numEmployees <= f.maxEmployees[1]
    /\ f.name # Undefined => ContainsIgnoreCase(c.name, f.name[1])

\* what findAll returned is the companies that pass the filters, each once,
\* by ascending name
ReturnsThePassing ==
    LET f == last.args
        res == last.out.value
        stored == { [handle |-> r.handle, name |-> r.name, description |-> r.description,
                     numEmployees |-> r.num_employees, logoUrl |-> r.logo_url] :
                    r \in companies }
    IN /\ { res[i] : i \in 1..Len(res) } = { c \in stored : PassesFilters(c, f) }
       /\ \A i, j \in 1..Len(res) :
              i < j => res[i] # res[j] /\ StrLeq(res[i].name, res[j].name)

\* every placeholder $n of the query is bound to the value of the filter its
\* clause tests
PlaceholdersBound ==
    LET f == last.args
        q == last.query[1]
    IN \A i \in 1..Len(q.where) :
           LET c == q.where[i] IN
           /\ c.idx \in 1..Len(q.values)
           /\ c.op = ">=" => q.values[c.idx] = f.minEmployees[1]
           /\ c.op = "<=" => q.values[c.idx] = f.maxEmployees[1]
           /\ c.op = "ILIKE" => q.values[c.idx] = <<"%">> \o f.name[1] \o <<"%">>

\* C4: a findAll that does not raise the range error returns exactly the
\* companies that pass every filter given (numEmployees >= minEmployees,
\* numEmployees <= maxEmployees, name containing the text, letter case
\* aside), by ascending name, and every placeholder is bound to its filter.
C4_FindAllExact ==
    (last.op = "findAll" /\ last.out.status = "returned") =>
        ReturnsThePassing /\ PlaceholdersBound

\* the same for name filters that hold neither % nor _
C4_FindAllExactPlainNames ==
    (/\ last.op = "findAll"
     /\ last.out.status = "returned"
     /\ last.args.name \notin {Some(<<"_">>), Some(<<"%">>)}) =>
        ReturnsThePassing /\ PlaceholdersBound

\* an update of a company that is not stored fails with NotFound
UpdateOfMissingCompany(anyData) ==
    (/\ last.op = "update"
     /\ ~ \E r \in companies : r.handle = last.args.handle
     /\ (anyData \/ last.args.data # <<>>)) =>
        last.out = Thrown(NotFoundError(<<"No company: ", last.args.handle>>))

\* an update of a user that is not stored fails with NotFound
UpdateOfMissingUser(anyData) ==
    (/\ last.op = "updateUser"
     /\ ~ \E r \in users : r.username = last.args.username
     /\ (anyData \/ (last.args.data # <<>> /\ ~ HasField(last.args.data, "isAdmin")))) =>
        /\ last.out.status = "thrown"
        /\ last.out.value.kind = "NotFoundError"

\* a step that is an update of a company or user that is not stored
UpdateOfMissingStep ==
    \/ /\ last'.op = "update"
       /\ ~ \E r \in companies : r.handle = last'.args.handle
    \/ /\ last'.op = "updateUser"
       /\ ~ \E r \in users : r.username = last'.args.username

\* C5 as stated: for every handle (username) that is not stored and every
\* update data, update fails with NotFound.
C5_AlwaysNotFound == UpdateOfMissingCompany(TRUE) /\ UpdateOfMissingUser(TRUE)

\* C5, amended: for every handle that is not stored and every update data
\* that is not empty, Company.update fails with NotFound, and so does
\* User.update for every username that is not stored and every data that is
\* not empty and does not name isAdmin; empty data fails with BadRequest
\* instead; and in each of these calls the store is left as it was.
C5_NotFoundUnlessEmpty ==
    /\ [](/\ UpdateOfMissingCompany(FALSE)
          /\ UpdateOfMissingUser(FALSE)
          /\ (last.op \in {"update", "updateUser"} /\ last.args.data = <<>>) =>
                 (last.out.status = "thrown" /\ last.out.value.kind = "BadRequestError"))
    /\ [][UpdateOfMissingStep =>
              UNCHANGED <<companies, jobs, users, applications>>]_vars

\* an update of a company that is not stored has failed with NotFound, after
\* updates that changed a stored one
C5_Witness ==
    /\ last.op = "update"
    /\ last.args.handle = "nope"
    /\ last.out = Thrown(NoCompany("nope"))
    /\ companies # CompanyFixture

\* the value the data gives field f
ValueIn(data, f) == data[CHOOSE i \in 1..Len(data) : data[i].field = f].value

\* a step that is a Company.update of a stored company, with data: it
\* returns the company with the fields the data names set to the data's
\* values and the others as they were, stores it so, leaves every other row
\* and table as it was, and binds the handle last, at $(fields + 1)
CompanyUpdateStep ==
    (/\ last'.op = "update"
     /\ last'.args.data # <<>>
     /\ \E r \in companies : r.handle = last'.args.handle) =>
        LET h == last'.args.handle
            data == last'.args.data
            old == CHOOSE r \in companies : r.handle = h
            new == last'.out.value
            q == last'.query[1]
        IN /\ last'.out.status = "returned"
           /\ new.handle = h
           /\ \A f \in {"name", "description", "numEmployees", "logoUrl"} :
                  new[f] = IF HasField(data, f) THEN ValueIn(data, f) ELSE CompanyShape(old)[f]
           /\ \E r \in companies' : CompanyShape(r) = new
           /\ { r \in companies' : r.handle # h } = { r \in companies : r.handle # h }
           /\ Cardinality(companies') = Cardinality(companies)
           /\ UNCHANGED <<jobs, users, applications>>
           /\ q.handleVarIdx = Len(data) + 1
           /\ Len(q.binds) = Len(data) + 1
           /\ q.binds[Len(q.binds)] = h

\* a step that is a User.update of a stored user with a password alone:
\* it leaves firstName, lastName, email and isAdmin as they were
PasswordUpdateStep ==
    (/\ last'.op = "updateUser"
     /\ Len(last'.args.data) = 1
     /\ last'.args.data[1].field = "password"
     /\ \E r \in users : r.username = last'.args.username) =>
        LET u == last'.args.username
            old == CHOOSE r \in users : r.username = u
        IN /\ last'.out = Returned(UserShape(old))
           /\ \E r \in users' : r.username = u /\ UserShape(r) = UserShape(old)
           /\ { r \in users' : r.username # u } = { r \in users : r.username # u }
           /\ UNCHANGED <<companies, jobs, applications>>

\* C10: a partial update that succeeds changes the fields supplied and
\* nothing else, and binds the lookup key as the last bind value, at
\* placeholder index (number of updated fields + 1).
C10_OnlySuppliedFields == [][CompanyUpdateStep /\ PasswordUpdateStep]_vars

\* an update of two fields has changed them, and a password has been set
C10_Witness ==
    /\ last.op = "update"
    /\ last.out.status = "returned"
    /\ Len(last.args.data) = 2
    /\ last.out.value.numEmployees = 0
    /\ \E r \in users : r.username = "u1" /\ r.password = Hash("password2")

\* one application per (username, jobId), each of a stored user and a stored job
ApplicationsSound ==
    /\ \A a, b \in applications :
           (a.username = b.username /\ a.job_id = b.job_id) => a = b
    /\ \A a \in applications :
           /\ \E u \in users : u.username = a.username
           /\ \E j \in jobs : j.id = a.job_id

\* a step that is an applyToJob call: what it throws or inserts
ApplyStep ==
    last'.op = "applyToJob" =>
        LET a == last'.args
            userStored == \E u \in users : u.username = a.username
            jobStored == \E j \in jobs : j.id = a.jobId
            pairStored == \E x \in applications :
                              x.username = a.username /\ x.job_id = a.jobId
            noUsername == Thrown(NotFoundError(<<"No username: ", a.username>>))
            noJob == Thrown(NotFoundError(<<"No job: ", a.jobId>>))
        IN /\ (~ userStored /\ jobStored) => last'.out = noUsername
           /\ (userStored /\ ~ jobStored) => last'.out = noJob
           /\ (~ userStored /\ ~ jobStored) => last'.out \in {noUsername, noJob}
           /\ (userStored /\ jobStored /\ pairStored) =>
                  last'.out = Thrown(BadRequestError("Already applied"))
           /\ (userStored /\ jobStored /\ ~ pairStored) =>
                  /\ last'.out.status = "returned"
                  /\ applications' = applications \cup
                        { [username |-> a.username, job_id |-> a.jobId,
                           status |-> IF a.status = Undefined THEN "applied"
                                      ELSE a.status[1]] }
           /\ last'.out.status = "thrown" => applications' = applications

\* C6: applyToJob fails with NotFound "No username" for a username that is
\* not stored, with NotFound "No job" for a job id that is not stored, with
\* BadRequest "Already applied" for a pair that is stored, and otherwise
\* inserts the one row (username, jobId, status), status "applied" when none
\* is given; a call that fails changes no application; so there is at most
\* one application per pair, each of a stored user and a stored job.
C6_ApplyToJob == [][ApplyStep]_vars /\ []ApplicationsSound

\* a second application of a pair has failed, after one with a status given
C6_Witness ==
    /\ last.op = "applyToJob"
    /\ last.out = Thrown(AlreadyApplied)
    /\ last.args.username = "u2"
    /\ \E a \in applications : a.username = "u2" /\ a.status = "interviewed"

\* C7: authenticate returns the user, without a password field, when the
\* username is stored and the password matches its hash; for a username
\* that is not stored and for a stored one with another password it throws
\* one and the same Unauthorized error, "Invalid username/password".
C7_Authenticate ==
    last.op = "authenticate" =>
        LET matching == { r \in users : /\ r.username = last.args.username
                                        /\ r.password = Hash(last.args.password) }
        IN IF matching # {}
           THEN /\ last.out.status = "returned"
                /\ "password" \notin DOMAIN last.out.value
                /\ \E r \in matching :
                       last.out.value =
                           [username |-> r.username, firstName |-> r.first_name,
                            lastName |-> r.last_name, email |-> r.email,
                            isAdmin |-> r.is_admin]
           ELSE last.out = Thrown(UnauthorizedError("Invalid username/password"))

\* authenticate has failed for a username that is not stored, beside a stored user
C7_Witness ==
    /\ last.op = "authenticate"
    /\ last.out.status = "thrown"
    /\ last.args.username = "nope"
    /\ users # {}

ApiOps ==
    {"getCompany", "getCompanies", "getJobs", "getJob", "signup", "login",
     "getCurrentUser", "updateProfile", "apiApplyToJob"}

\* C8: whatever fails in a remote call, the API client throws an array of
\* message strings.
C8_ThrowsArrayOfStrings ==
    (last.op \in ApiOps /\ last.out.status = "thrown") => last.out.value.type = "array"

\* C9: once a login or signup has returned a token, every request the
\* client sends carries "Bearer " and that token, until another login or
\* signup returns one.
C9_BearerOfIssuedToken ==
    [][issued # None => sent'.headers.Authorization = <<"Bearer ", issued>>]_vars

====
